---- MODULE Spec2Model ----
(***************************************************************************)
(* Model of dnadb's taxonomy module (src/src/dnadb/taxonomy.py): the label *)
(* codec (split_taxonomy / join_taxonomy), the Taxon node and the          *)
(* TaxonomyHierarchy built from per-rank name -> Taxon dictionaries.       *)
(*                                                                         *)
(* Strings are sequences of one-character strings, so that the regular     *)
(* expression of split_taxonomy and the formatting of join_taxonomy are    *)
(* computed character by character.  A Python dict is a sequence of        *)
(* [key, val] entries in insertion order.  Taxon objects live in a heap    *)
(* (one per hierarchy: a hierarchy only ever references Taxon objects it   *)
(* created itself); a reference is an index into it and 0 is None.         *)
(***************************************************************************)
EXTENDS Integers, Sequences, FiniteSets, TLC

\* ------------------------------------------------------------------ bounds

\* Number of hierarchy objects of a run that merges.
NumH == 2
\* Largest depth a hierarchy is constructed with.
MaxDepth == 2
\* Longest name tuple handed to an operation of a hierarchy.
MaxLen == 2
\* Number of mutating calls (insertions, merges) in one run.
MaxOps == 3
\* Longest rank tuple / largest depth handed to the codec on its own.
MaxCodecLen == 3
\* Most entries handed to from_entries or to write_entries in one call.
MaxEntries == 2
\* Number of calls on a factory in one run.
MaxDbOps == 3
\* Largest chunk size of a factory besides the default one.
MaxChunk == 3

\* ------------------------------------------------------------- characters

\* The non-empty taxon names of the model and the empty name.
NameSet == { <<"A">>, <<"a">>, <<"B">> }
Empty == << >>
Names == NameSet \cup {Empty}

\* Characters matched by the regular expression class \w.
WordChars == {"A", "a", "B", "b", "_", "k", "p", "c", "o", "f", "g", "s"}

\* str.casefold on one character, then on a string.
FoldChar(c) == CASE c = "A" -> "a" [] c = "B" -> "b" [] OTHER -> c
casefold(s) == [i \in 1..Len(s) |-> FoldChar(s[i])]

Min(a, b) == IF a < b THEN a ELSE b
Max(a, b) == IF a > b THEN a ELSE b

\* Python slice s[:n] for n >= 0.
Take(s, n) == SubSeq(s, 1, Min(n, Len(s)))

\* Python sep.join(parts).
RECURSIVE StrJoin(_, _)
StrJoin(sep, parts) ==
    IF Len(parts) = 0 THEN << >>
    ELSE IF Len(parts) = 1 THEN parts[1]
    ELSE parts[1] \o sep \o StrJoin(sep, Tail(parts))

\* ------------------------------------------------------------------ codec

TAXON_PREFIXES == <<"k", "p", "c", "o", "f", "g", "s">>

\* The value standing for a raised AssertionError: no label.
AssertionError == <<"AssertionError">>

\* Last index of the greedy run [^;]+ that starts at index i.
RECURSIVE CaptureEnd(_, _)
CaptureEnd(s, i) ==
    IF i + 1 <= Len(s) /\ s[i + 1] # ";" THEN CaptureEnd(s, i + 1) ELSE i

\* The pattern \w__([^;]+) matches with its first character at index i.
MatchesAt(s, i) ==
    /\ i + 3 <= Len(s)
    /\ s[i] \in WordChars
    /\ s[i + 1] = "_"
    /\ s[i + 2] = "_"
    /\ s[i + 3] # ";"

\* re.findall(r"\w__([^;]+)", s) scanning from index i: the captured groups
\* of the leftmost non-overlapping matches.
RECURSIVE findall(_, _)
findall(s, i) ==
    IF i > Len(s) THEN << >>
    ELSE IF MatchesAt(s, i)
         THEN LET e == CaptureEnd(s, i + 3)
              IN  <<SubSeq(s, i + 3, e)>> \o findall(s, e + 1)
         ELSE findall(s, i + 1)

split_taxonomy(taxonomy, max_depth) == Take(findall(taxonomy, 1), max_depth)

\* join_taxonomy without the padding to depth: only the trimmed names are joined.
join_taxonomy_no_pad(taxonomy, depth) ==
    IF ~(depth >= 1 /\ depth <= 7) THEN AssertionError
    ELSE LET trimmed == Take(taxonomy, depth)
         IN  StrJoin(<<";", " ">>,
                     [i \in 1..Len(trimmed) |->
                         <<TAXON_PREFIXES[i], "_", "_">> \o trimmed[i]])

\* join_taxonomy asserting the upper limit of depth only.
join_taxonomy_no_lower(taxonomy, depth) ==
    IF ~(depth <= 7) THEN AssertionError
    ELSE LET trimmed == Take(taxonomy, depth)
             padded == trimmed \o [i \in 1..(depth - Len(trimmed)) |-> Empty]
         IN  StrJoin(<<";", " ">>,
                     [i \in 1..depth |-> <<TAXON_PREFIXES[i], "_", "_">> \o padded[i]])

join_taxonomy(taxonomy, depth) ==
    IF ~(depth >= 1 /\ depth <= 7) THEN AssertionError
    ELSE LET trimmed == Take(taxonomy, depth)
             padded == trimmed \o [i \in 1..(depth - Len(trimmed)) |-> Empty]
         IN  StrJoin(<<";", " ">>,
                     [i \in 1..depth |-> <<TAXON_PREFIXES[i], "_", "_">> \o padded[i]])

\* -------------------------------------------------------------- dictionary

\* A dict in insertion order: a sequence of [key, val] entries, keys distinct.
DictHas(d, k) == \E i \in 1..Len(d) : d[i].key = k
DictIdx(d, k) == CHOOSE i \in 1..Len(d) : d[i].key = k
DictGet(d, k) == d[DictIdx(d, k)].val
\* d[k] = v: an existing key keeps its position, a new key goes last.
DictSet(d, k, v) ==
    IF DictHas(d, k) THEN [d EXCEPT ![DictIdx(d, k)].val = v]
    ELSE Append(d, [key |-> k, val |-> v])
DictKeys(d) == {d[i].key : i \in 1..Len(d)}

\* A call that returned v, and a call that raised the exception e.
Ok(v) == [ok |-> TRUE, val |-> v]
Raised(e) == [ok |-> FALSE, err |-> e]

\* ------------------------------------------------------------------- Taxon

None == 0

\* Taxon.__eq__ (and __hash__): same depth, same case-folded name.
Taxon_eq(t, u) == t.depth = u.depth /\ casefold(t.name) = casefold(u.name)

\* set.add on a set of Taxon references: an element equal to the new one keeps
\* its place and the new one is not added.
SetAdd(heap, set, ref) ==
    IF \E e \in set : Taxon_eq(heap[e], heap[ref]) THEN set ELSE set \cup {ref}

\* Taxon(name, parent): the heap with the new object appended (its reference is
\* the new length of the heap) and registered in its parent's children.
Taxon_init(heap, name, parent) ==
    LET self == Len(heap) + 1
        obj == [name |-> name,
                depth |-> IF parent # None THEN heap[parent].depth + 1 ELSE 0,
                parent |-> parent,
                children |-> {}]
        heap1 == Append(heap, obj)
    IN  IF parent # None
        THEN [heap1 EXCEPT ![parent].children = SetAdd(heap1, @, self)]
        ELSE heap1

\* Taxon.resolve(): the names from the root to the taxon.
RECURSIVE resolve_walk(_, _)
resolve_walk(heap, taxon) ==
    IF taxon = None THEN << >>
    ELSE Append(resolve_walk(heap, heap[taxon].parent), heap[taxon].name)

\* Taxon.resolve(depth) with depth given.
resolve(heap, taxon, depth) ==
    LET taxons == resolve_walk(heap, taxon)
    IN  Take(taxons, depth) \o [i \in 1..Max(depth - Len(taxons), 0) |-> Empty]

\* ------------------------------------------------------- TaxonomyHierarchy

\* TaxonomyHierarchy(depth): one empty dict per rank.  Rank r of the code is
\* index r + 1 of taxon_maps.
TaxonomyHierarchy(depth) ==
    [heap |-> << >>, taxon_maps |-> [i \in 1..depth |-> << >>]]

depth(h) == Len(h.taxon_maps)

\* The membership test of add_taxons left out: every name is taken as new.
add_taxons_has_never(taxon_map, taxon_name) == FALSE

\* The membership test of add_taxons: taxon_name in taxon_map.
add_taxons_has(taxon_map, taxon_name) == DictHas(taxon_map, taxon_name)

\* The loop of add_taxons from index i on, parent being the loop's variable.
RECURSIVE add_taxons_loop(_, _, _, _)
add_taxons_loop(h, taxons, i, parent) ==
    IF i > Len(h.taxon_maps) \/ i > Len(taxons) THEN h
    ELSE LET taxon_name == taxons[i]
             heap1 == Taxon_init(h.heap, taxon_name, parent)
             h1 == IF ~add_taxons_has(h.taxon_maps[i], taxon_name)
                   THEN [heap |-> heap1,
                         taxon_maps |-> [h.taxon_maps EXCEPT
                                           ![i] = DictSet(@, taxon_name, Len(heap1))]]
                   ELSE h
         IN  add_taxons_loop(h1, taxons, i + 1, DictGet(h1.taxon_maps[i], taxon_name))

add_taxons(h, taxons) == add_taxons_loop(h, taxons, 1, None)

DEFAULT_MAX_DEPTH == 7

\* TaxonomyEntry.taxons(depth)
Entry_taxons(entry, d) == split_taxonomy(entry.label, d)

add_entry(h, entry) == add_taxons(h, Entry_taxons(entry, depth(h)))

add_taxonomy(h, entry) == add_taxons(h, split_taxonomy(entry, DEFAULT_MAX_DEPTH))

\* unique_labels(entries): the labels in the order they are first seen.
RECURSIVE unique_labels(_, _, _)
unique_labels(entries, i, m) ==
    IF i > Len(entries) THEN << >>
    ELSE IF entries[i].label \in m THEN unique_labels(entries, i + 1, m)
    ELSE <<entries[i].label>> \o unique_labels(entries, i + 1, m \cup {entries[i].label})

\* from_entries: the loop over the unique labels from index i on.
RECURSIVE from_entries_loop(_, _, _)
from_entries_loop(hierarchy, labels, i) ==
    IF i > Len(labels) THEN hierarchy
    ELSE from_entries_loop(
             add_taxons(hierarchy, split_taxonomy(labels[i], DEFAULT_MAX_DEPTH)),
             labels, i + 1)

from_entries(entries, d) ==
    from_entries_loop(TaxonomyHierarchy(d), unique_labels(entries, 1, {}), 1)

\* An argument that is a str or a tuple (isinstance(taxons, str)).
Str(s) == [str |-> s]
Tuple(t) == [tuple |-> t]
IsStr(a) == "str" \in DOMAIN a

\* The membership test of is_valid looking the case-folded name up.
is_valid_has_folded(taxon_map, taxon) == DictHas(taxon_map, casefold(taxon))

\* The membership test of is_valid: taxon in taxon_map.
is_valid_has(taxon_map, taxon) == DictHas(taxon_map, taxon)

\* The loop of is_valid from index i on.
RECURSIVE is_valid_loop(_, _, _)
is_valid_loop(h, taxon_list, i) ==
    IF i > Len(h.taxon_maps) \/ i > Len(taxon_list) THEN TRUE
    ELSE IF Len(taxon_list[i]) = 0 THEN TRUE
    ELSE IF ~is_valid_has(h.taxon_maps[i], taxon_list[i]) THEN FALSE
    ELSE is_valid_loop(h, taxon_list, i + 1)

is_valid(h, taxons) ==
    LET taxon_list == IF IsStr(taxons)
                      THEN split_taxonomy(taxons.str, DEFAULT_MAX_DEPTH)
                      ELSE taxons.tuple
    IN  is_valid_loop(h, taxon_list, 1)

RECURSIVE reduce_taxons_loop(_, _, _, _)

\* The loop of reduce_taxons going on to the next rank at a missing name
\* (continue) where the code leaves the loop (break).
reduce_taxons_loop_continue(h, taxons, i, reduced_taxons) ==
    IF i > Len(h.taxon_maps) \/ i > Len(taxons) THEN reduced_taxons
    ELSE IF ~DictHas(h.taxon_maps[i], taxons[i])
         THEN reduce_taxons_loop(h, taxons, i + 1, reduced_taxons)
    ELSE reduce_taxons_loop(h, taxons, i + 1,
                            [reduced_taxons EXCEPT ![i] = taxons[i]])

\* The loop of reduce_taxons from index i on.
reduce_taxons_loop(h, taxons, i, reduced_taxons) ==
    IF i > Len(h.taxon_maps) \/ i > Len(taxons) THEN reduced_taxons
    ELSE IF ~DictHas(h.taxon_maps[i], taxons[i]) THEN reduced_taxons
    ELSE reduce_taxons_loop(h, taxons, i + 1,
                            [reduced_taxons EXCEPT ![i] = taxons[i]])

\* reduce_taxons returning the names it was given.
reduce_taxons_unreduced(h, taxons) == taxons

reduce_taxons(h, taxons) ==
    reduce_taxons_loop(h, taxons, 1, [i \in 1..Len(taxons) |-> Empty])

\* hierarchy.taxons(depth, taxon): depth is a rank (0-based), taxon a name.
taxons(h, rank, taxon) ==
    IF rank < 0 \/ rank >= Len(h.taxon_maps) THEN Raised("IndexError")
    ELSE IF ~DictHas(h.taxon_maps[rank + 1], taxon) THEN Raised("KeyError")
    ELSE Ok(resolve(h.heap, DictGet(h.taxon_maps[rank + 1], taxon), Len(h.taxon_maps)))

taxonomy(h, rank, taxon) ==
    LET r == taxons(h, rank, taxon)
    IN  IF r.ok THEN Ok(join_taxonomy(r.val, Len(h.taxon_maps))) ELSE r

\* serialize() writing the empty parent name for every taxon.
serialize_no_parent(h) ==
    [i \in 1..Len(h.taxon_maps) |->
        [j \in 1..Len(h.taxon_maps[i]) |->
            <<h.heap[h.taxon_maps[i][j].val].name, Empty>>]]

\* serialize(): the JSON document's parent_map, a list of objects, each object
\* a sequence of <<key, value>> members in the order json.dumps writes them.
serialize(h) ==
    [i \in 1..Len(h.taxon_maps) |->
        [j \in 1..Len(h.taxon_maps[i]) |->
            LET taxon == h.heap[h.taxon_maps[i][j].val]
            IN  <<taxon.name,
                  IF taxon.parent # None THEN h.heap[taxon.parent].name ELSE Empty>>]]

\* The inner loop of deserialize over the members of parent_map[i] from j on;
\* r is Ok(hierarchy) or the exception raised so far.
RECURSIVE deserialize_rank(_, _, _, _)

\* The inner loop of deserialize giving a taxon no parent where the parent
\* name is not a key of the rank above.
deserialize_rank_lenient(r, parent_map, i, j) ==
    IF ~r.ok \/ j > Len(parent_map[i]) THEN r
    ELSE LET h == r.val
             child == parent_map[i][j][1]
             parent_name == parent_map[i][j][2]
             parent == IF i > 1 /\ DictHas(h.taxon_maps[i - 1], parent_name)
                       THEN DictGet(h.taxon_maps[i - 1], parent_name)
                       ELSE None
             heap1 == Taxon_init(h.heap, child, parent)
             h1 == [heap |-> heap1,
                    taxon_maps |-> [h.taxon_maps EXCEPT
                                      ![i] = DictSet(@, child, Len(heap1))]]
         IN  deserialize_rank(Ok(h1), parent_map, i, j + 1)

deserialize_rank(r, parent_map, i, j) ==
    IF ~r.ok \/ j > Len(parent_map[i]) THEN r
    ELSE LET h == r.val
             child == parent_map[i][j][1]
             parent_name == parent_map[i][j][2]
         IN  IF i > 1 /\ ~DictHas(h.taxon_maps[i - 1], parent_name)
             THEN Raised("KeyError")
             ELSE LET parent == IF i > 1 THEN DictGet(h.taxon_maps[i - 1], parent_name)
                                ELSE None
                      heap1 == Taxon_init(h.heap, child, parent)
                      h1 == [heap |-> heap1,
                             taxon_maps |-> [h.taxon_maps EXCEPT
                                               ![i] = DictSet(@, child, Len(heap1))]]
                  IN  deserialize_rank(Ok(h1), parent_map, i, j + 1)

RECURSIVE deserialize_loop(_, _, _)
deserialize_loop(r, parent_map, i) ==
    IF ~r.ok \/ i > Len(parent_map) THEN r
    ELSE deserialize_loop(deserialize_rank(r, parent_map, i, 1), parent_map, i + 1)

deserialize(parent_map) ==
    deserialize_loop(Ok(TaxonomyHierarchy(Len(parent_map))), parent_map, 1)

\* merge: the loop over from_map.values() at index i, from its j-th value on.
RECURSIVE merge_rank(_, _, _, _)
merge_rank(r, other, i, j) ==
    IF ~r.ok \/ j > Len(other.taxon_maps[i]) THEN r
    ELSE LET m == r.val
             taxon == other.heap[other.taxon_maps[i][j].val]
             lookup == i > 1 /\ taxon.parent # None
             parent_name == other.heap[taxon.parent].name
         IN  IF lookup /\ ~DictHas(m.taxon_maps[i - 1], parent_name)
             THEN Raised("KeyError")
             ELSE LET parent == IF lookup THEN DictGet(m.taxon_maps[i - 1], parent_name)
                                ELSE None
                      heap1 == Taxon_init(m.heap, taxon.name, parent)
                      m1 == [heap |-> heap1,
                             taxon_maps |-> [m.taxon_maps EXCEPT
                                               ![i] = DictSet(@, taxon.name, Len(heap1))]]
                  IN  merge_rank(Ok(m1), other, i, j + 1)

\* merge: the loop over range(depth) for one input hierarchy.
RECURSIVE merge_one(_, _, _)
merge_one(r, other, i) ==
    IF ~r.ok \/ i > Len(r.val.taxon_maps) THEN r
    ELSE merge_one(merge_rank(r, other, i, 1), other, i + 1)

RECURSIVE merge_loop(_, _, _)

\* The loop of merge leaving hierarchy_list after its first element.
merge_loop_first(r, hierarchy_list, k) ==
    IF ~r.ok \/ k > 1 THEN r
    ELSE merge_loop(merge_one(r, hierarchy_list[k], 1), hierarchy_list, k + 1)

\* merge: the loop over hierarchy_list from its k-th element on.
merge_loop(r, hierarchy_list, k) ==
    IF ~r.ok \/ k > Len(hierarchy_list) THEN r
    ELSE merge_loop(merge_one(r, hierarchy_list[k], 1), hierarchy_list, k + 1)

RECURSIVE MinDepth(_)
MinDepth(hierarchy_list) ==
    IF Len(hierarchy_list) = 1 THEN depth(hierarchy_list[1])
    ELSE Min(depth(hierarchy_list[1]), MinDepth(Tail(hierarchy_list)))

merge(hierarchy_list) ==
    IF Len(hierarchy_list) = 0 THEN Raised("ValueError")
    ELSE merge_loop(Ok(TaxonomyHierarchy(MinDepth(hierarchy_list))), hierarchy_list, 1)

\* The elements of a set of references as a sequence, in the order a loop over
\* the set visits them (here: by reference; the callers below use the sequence
\* as a collection only).
RECURSIVE SetIter(_)
SetIter(set) ==
    IF set = {} THEN << >>
    ELSE LET m == CHOOSE x \in set : \A y \in set : x <= y
         IN  <<m>> \o SetIter(set \ {m})

\* find_leaves(node) of leaves(), its loop over node.children taken as the
\* sequence children from index j on.
RECURSIVE find_leaves_loop(_, _, _)
find_leaves_loop(heap, children, j) ==
    IF j > Len(children) THEN << >>
    ELSE LET child == children[j]
         IN  IF Cardinality(heap[child].children) = 0
             THEN <<child>> \o find_leaves_loop(heap, children, j + 1)
             ELSE find_leaves_loop(heap, SetIter(heap[child].children), 1)
                      \o find_leaves_loop(heap, children, j + 1)

find_leaves(heap, node) == find_leaves_loop(heap, SetIter(heap[node].children), 1)

\* leaves(): the list comprehension over taxon_maps[0].values() from index j on.
RECURSIVE leaves_loop(_, _)
leaves_loop(h, j) ==
    IF j > Len(h.taxon_maps[1]) THEN << >>
    ELSE find_leaves(h.heap, h.taxon_maps[1][j].val) \o leaves_loop(h, j + 1)

leaves(h) == leaves_loop(h, 1)

\* The (rank, name, parent-name) triple of the j-th taxon of rank map i; a
\* taxon without parent has the parent name serialize() writes for it.
TripleOf(h, i, j) ==
    LET taxon == h.heap[h.taxon_maps[i][j].val]
    IN  <<i - 1, taxon.name,
          IF taxon.parent # None THEN h.heap[taxon.parent].name ELSE Empty>>

Triples(h) ==
    UNION {{TripleOf(h, i, j) : j \in 1..Len(h.taxon_maps[i])} :
             i \in 1..Len(h.taxon_maps)}

\* ------------------------------------------------------- taxon identifiers

\* id_to_taxon_map: for each rank the names of its taxa in the order of their
\* first insertion; the identifier of a name is its position counted from 0.
id_to_taxon_map(h) ==
    [i \in 1..depth(h) |->
        [j \in 1..Len(h.taxon_maps[i]) |-> h.taxon_maps[i][j].key]]

\* taxon_to_id_map[rank][name]: the identifier assigned under the case-folded
\* name, an assigned identifier never changing; -1 where there is none.
taxon_to_id_map(h, i, name) ==
    LET js == {j \in 1..Len(h.taxon_maps[i]) :
                  casefold(h.taxon_maps[i][j].key) = casefold(name)}
    IN  IF js = {} THEN -1
        ELSE (CHOOSE j \in js : \A j2 \in js : j <= j2) - 1

\* The identifier of rank i of the split label: -1 for a rank the label does
\* not have, for the empty name and for a name without identifier.
token_id(h, taxon_list, i) ==
    IF i > Len(taxon_list) \/ taxon_list[i] = Empty THEN -1
    ELSE taxon_to_id_map(h, i, taxon_list[i])

\* tokenize(label, pad, include_missing): one token per rank, the label cut to
\* the depth of the hierarchy.  With include_missing the tokens are the
\* identifiers moved up by one and 0 is the token of a missing rank; without
\* it the token of a missing rank is -1.  Without pad the tokens stop before
\* the first missing rank.
tokenize(h, label, pad, include_missing) ==
    LET taxon_list == split_taxonomy(label, depth(h))
        shift == IF include_missing THEN 1 ELSE 0
        resolved == {i \in 1..depth(h) :
                        \A j \in 1..i : token_id(h, taxon_list, j) # -1}
    IN  [i \in 1..(IF pad THEN depth(h) ELSE Cardinality(resolved)) |->
            token_id(h, taxon_list, i) + shift]

\* detokenize(tokens, include_missing): the label joined at the depth of the
\* hierarchy from the names the tokens stand for, a missing rank being empty.
detokenize(h, tokens, include_missing) ==
    LET shift == IF include_missing THEN 1 ELSE 0
        names == id_to_taxon_map(h)
    IN  join_taxonomy(
            [i \in 1..Min(Len(tokens), depth(h)) |->
                IF tokens[i] - shift >= 0 /\ tokens[i] - shift < Len(names[i])
                THEN names[i][tokens[i] - shift + 1]
                ELSE Empty],
            depth(h))

\* ------------------------------------------------------------------ bytes

\* The characters of the model with their code points; "\\x00" ... "\\x08"
\* stand for the control characters of those codes.
CharCodes ==
    { <<"\\x00", 0>>, <<"\\x01", 1>>, <<"\\x02", 2>>, <<"\\x03", 3>>,
      <<"\\x04", 4>>, <<"\\x05", 5>>, <<"\\x06", 6>>, <<"\\x07", 7>>,
      <<"\\x08", 8>>, <<"\t", 9>>, <<"\n", 10>>, <<" ", 32>>, <<";", 59>>,
      <<"A", 65>>, <<"B", 66>>, <<"_", 95>>, <<"a", 97>>, <<"b", 98>>,
      <<"c", 99>>, <<"e", 101>>, <<"f", 102>>, <<"g", 103>>, <<"h", 104>>,
      <<"k", 107>>, <<"l", 108>>, <<"n", 110>>, <<"o", 111>>, <<"p", 112>>,
      <<"s", 115>>, <<"t", 116>> }

Ord(c) == (CHOOSE p \in CharCodes : p[1] = c)[2]
Chr(b) == (CHOOSE p \in CharCodes : p[2] = b)[1]

\* str.encode() and bytes.decode() on the characters of the model: the bytes
\* of a string are the sequence of its code points.
encode(s) == [i \in 1..Len(s) |-> Ord(s[i])]
decode(b) == [i \in 1..Len(b) |-> Chr(b[i])]

\* Characters str.rstrip() removes.
Whitespace == {" ", "\t", "\n"}

RECURSIVE rstrip(_)
rstrip(s) ==
    IF Len(s) > 0 /\ s[Len(s)] \in Whitespace THEN rstrip(SubSeq(s, 1, Len(s) - 1))
    ELSE s

\* s.split(sep) for a one-character separator, from index i on, cur being the
\* part read so far.
RECURSIVE str_split(_, _, _, _)
str_split(s, sep, i, cur) ==
    IF i > Len(s) THEN <<cur>>
    ELSE IF s[i] = sep THEN <<cur>> \o str_split(s, sep, i + 1, << >>)
    ELSE str_split(s, sep, i + 1, Append(cur, s[i]))

\* num_entries += 1 leaving the counter as it is.
int32_same(n) == n

\* np.int32 + 1 and np.int32.tobytes(), little-endian two's complement; and
\* np.frombuffer(b, dtype=np.int32, count=1)[0].
int32_add1(n) == IF n = 2147483647 THEN -2147483647 - 1 ELSE n + 1
tobytes(n) ==
    <<n % 256, (n \div 256) % 256, (n \div 65536) % 256, (n \div 16777216) % 256>>
frombuffer(b) ==
    IF Len(b) < 4 THEN Raised("ValueError")
    ELSE Ok(b[1] + 256 * b[2] + 65536 * b[3]
              + 16777216 * (IF b[4] >= 128 THEN b[4] - 256 ELSE b[4]))

\* ----------------------------------------------------------- TaxonomyEntry

\* TaxonomyEntry(identifier, label): the fields of the new object.
TaxonomyEntry(identifier, label) == [identifier |-> identifier, label |-> label]

\* str(entry) and entry.serialize()
Entry_str(entry) == entry.identifier \o <<"\t">> \o entry.label
Entry_serialize(entry) == encode(Entry_str(entry))

\* TaxonomyEntry.from_str(entry): unpacking anything but two parts raises.
Entry_from_str(entry) ==
    LET parts == str_split(rstrip(entry), "\t", 1, << >>)
    IN  IF Len(parts) # 2 THEN Raised("ValueError")
        ELSE Ok(TaxonomyEntry(parts[1], parts[2]))

\* TaxonomyEntry.deserialize(entry)
Entry_deserialize(entry) == Entry_from_str(decode(entry))

\* a == b for two TaxonomyEntry objects, given by reference: the class defines
\* no __eq__, so this is object.__eq__, the identity of the objects.
Entry_eq(a, b) == a = b

\* ------------------------------------------ DbFactory / TaxonomyDbFactory

\* A mapping from keys to values (the buffer dict, the key-value store).
EmptyMap == [x \in {} |-> << >>]
MapSet(m, k, v) == [x \in DOMAIN m \cup {k} |-> IF x = k THEN v ELSE m[x]]
MapUpdate(m, other) ==
    [x \in DOMAIN m \cup DOMAIN other |-> IF x \in DOMAIN other THEN other[x] ELSE m[x]]

HierarchyKey == <<"h", "i", "e", "r", "a", "r", "c", "h", "y">>
LengthKey == <<"l", "e", "n", "g", "t", "h">>

DEFAULT_CHUNK_SIZE == 10000

\* The operators below take and return a world w: the factory object, the
\* store its db field refers to, the log of the calls made on the store, and
\* ok, which is FALSE while an exception raised by a call propagates.

\* TaxonomyDbFactory(path, chunk_size) with the store Lmdb.open(path, "n")
\* creates.
TaxonomyDbFactory(chunk_size) ==
    [factory |-> [buffer |-> EmptyMap,
                  chunk_size |-> chunk_size,
                  hierarchy |-> TaxonomyHierarchy(DEFAULT_MAX_DEPTH),
                  num_entries |-> 0],
     store |-> [data |-> EmptyMap, open |-> TRUE],
     log |-> [updates |-> 0, late_updates |-> 0, closes |-> 0,
              length_writes |-> 0, entries |-> << >>, late_entries |-> 0,
              writes |-> EmptyMap, max_batch |-> 0, max_pending |-> 0],
     ok |-> TRUE]

\* self.db.update(buffer): the store takes every pair of the buffer; a store
\* that has been closed takes nothing and raises.  The log keeps the size of
\* the largest buffer handed over.
Lmdb_update(w, buffer) ==
    LET w0 == [w EXCEPT !.log.max_batch = Max(@, Cardinality(DOMAIN buffer))]
    IN  IF w.store.open
        THEN [w0 EXCEPT !.store.data = MapUpdate(@, buffer), !.log.updates = @ + 1]
        ELSE [w0 EXCEPT !.ok = FALSE, !.log.updates = @ + 1,
                        !.log.late_updates = @ + 1]

\* self.db.close()
Lmdb_close(w) == [w EXCEPT !.store.open = FALSE, !.log.closes = @ + 1]

\* flush clearing the buffer without handing it to the store.
flush_no_update(w) ==
    LET w1 == Lmdb_update(w, EmptyMap)
    IN  IF w1.ok THEN [w1 EXCEPT !.factory.buffer = EmptyMap] ELSE w1

\* DbFactory.flush
flush(w) ==
    LET w1 == Lmdb_update(w, w.factory.buffer)
    IN  IF w1.ok THEN [w1 EXCEPT !.factory.buffer = EmptyMap] ELSE w1

\* DbFactory.write; the log keeps the value last passed for each key and the
\* size of the largest buffer a call has left behind.
write(w, key, value) ==
    LET w1 == [w EXCEPT !.factory.buffer = MapSet(@, key, value),
                        !.log.writes = MapSet(@, key, value)]
        w2 == IF Cardinality(DOMAIN w1.factory.buffer) >= w1.factory.chunk_size
              THEN flush(w1)
              ELSE w1
    IN  [w2 EXCEPT !.log.max_pending = Max(@, Cardinality(DOMAIN w2.factory.buffer))]

\* DbFactory.close
DbFactory_close(w) ==
    LET w1 == flush(w)
    IN  IF w1.ok THEN Lmdb_close(w1) ELSE w1

\* TaxonomyDbFactory.write_entry; the log takes the entry of the call, or
\* counts the call when the store has been closed before.
write_entry(w, entry) ==
    LET w0 == IF w.store.open
              THEN [w EXCEPT !.log.entries = Append(@, entry)]
              ELSE [w EXCEPT !.log.late_entries = @ + 1]
        w1 == [w0 EXCEPT !.factory.hierarchy = add_entry(@, entry)]
        w2 == write(w1, entry.identifier, Entry_serialize(entry))
    IN  IF w2.ok THEN [w2 EXCEPT !.factory.num_entries = int32_add1(@)] ELSE w2

\* TaxonomyDbFactory.write_entries: the loop from the i-th entry on.
RECURSIVE write_entries(_, _, _)
write_entries(w, entries, i) ==
    IF ~w.ok \/ i > Len(entries) THEN w
    ELSE write_entries(write_entry(w, entries[i]), entries, i + 1)

\* TaxonomyDbFactory.close; the value of the hierarchy key is the document
\* serialize() returns.
TaxonomyDbFactory_close(w) ==
    LET w1 == write(w, HierarchyKey, serialize(w.factory.hierarchy))
        w2 == IF w1.ok
              THEN write([w1 EXCEPT !.log.length_writes = @ + 1],
                         LengthKey, tobytes(w1.factory.num_entries))
              ELSE w1
    IN  IF w2.ok THEN DbFactory_close(w2) ELSE w2

\* --------------------------------------------------------------- TaxonomyDb

\* TaxonomyDb(path): the object's length field, read from the store.
TaxonomyDb(store) ==
    IF LengthKey \notin DOMAIN store.data THEN Raised("KeyError")
    ELSE LET r == frombuffer(store.data[LengthKey])
         IN  IF r.ok THEN Ok([opened |-> TRUE, length |-> r.val]) ELSE r

\* len(db)
TaxonomyDb_len(db) == db.length

\* db[sequence_id]
TaxonomyDb_getitem(store, sequence_id) ==
    IF sequence_id \notin DOMAIN store.data THEN Raised("KeyError")
    ELSE Entry_deserialize(store.data[sequence_id])

\* ----------------------------------------------------------- state machine

VARIABLES
    hs,        \* hs[k]: the k-th TaxonomyHierarchy object
    inserted,  \* inserted[k]: the arguments of the insertions made into hs[k]
    ops,       \* number of mutating calls made
    codec,     \* a run of the label codec: its input and each step's value
    entry_heap, \* the TaxonomyEntry objects created, a reference being an index
    factory,   \* the TaxonomyDbFactory object
    store,     \* the key-value store the factory's db field refers to
    db,        \* the TaxonomyDb object opened on the store, if any
    log,       \* the calls made on the factory and on the store so far
    blob       \* a run of deserialize: the document and the call's result

dbvars == <<factory, store, db, log>>
vars == <<hs, inserted, ops, codec, entry_heap, dbvars, blob>>

\* No entry object has been created; no factory has been constructed.
NoEntries == entry_heap = << >>

\* No document is being deserialized.
NoBlob == blob = [stage |-> "idle"]
\* The value of db while no TaxonomyDb object has been constructed.
NoTaxonomyDb == [opened |-> FALSE]
NoDb == factory = None /\ store = None /\ db = NoTaxonomyDb /\ log = None

\* Name tuples and labels handed to the operations.
TupleInputs == UNION {[1..n -> Names] : n \in 1..MaxLen}
LabelInputs == {join_taxonomy(x, Len(x)) : x \in TupleInputs}
SequenceIds == {<<"s">>}
EntryInputs == [identifier : SequenceIds, label : LabelInputs]

CodecIdle == [stage |-> "idle"]

\* One hierarchy object, constructed with some depth.
Init ==
    /\ hs \in [{1} -> {TaxonomyHierarchy(d) : d \in 1..MaxDepth}]
    /\ inserted = [k \in {1} |-> {}]
    /\ ops = 0
    /\ codec = CodecIdle
    /\ NoEntries
    /\ NoBlob
    /\ NoDb

\* NumH hierarchy objects, each constructed with some depth.
InitMerge ==
    /\ hs \in [1..NumH -> {TaxonomyHierarchy(d) : d \in 1..MaxDepth}]
    /\ inserted = [k \in 1..NumH |-> {}]
    /\ ops = 0
    /\ codec = CodecIdle
    /\ NoEntries
    /\ NoBlob
    /\ NoDb

\* hs[k].add_taxons(t)
AddTaxons(k, t) ==
    /\ ops < MaxOps
    /\ hs' = [hs EXCEPT ![k] = add_taxons(hs[k], t)]
    /\ inserted' = [inserted EXCEPT ![k] = @ \cup {Tuple(t)}]
    /\ ops' = ops + 1
    /\ UNCHANGED <<codec, entry_heap, dbvars, blob>>

\* hs[k].add_taxonomy(label)
AddTaxonomy(k, label) ==
    /\ ops < MaxOps
    /\ hs' = [hs EXCEPT ![k] = add_taxonomy(hs[k], label)]
    /\ inserted' = [inserted EXCEPT ![k] = @ \cup {Str(label)}]
    /\ ops' = ops + 1
    /\ UNCHANGED <<codec, entry_heap, dbvars, blob>>

\* hs[k].add_entry(entry)
AddEntry(k, entry) ==
    /\ ops < MaxOps
    /\ hs' = [hs EXCEPT ![k] = add_entry(hs[k], entry)]
    /\ inserted' = [inserted EXCEPT ![k] = @ \cup {Str(entry.label)}]
    /\ ops' = ops + 1
    /\ UNCHANGED <<codec, entry_heap, dbvars, blob>>

\* hs[k] = TaxonomyHierarchy.from_entries(entries, d): a new object, into which
\* the labels of the entries have been inserted.  The new object does not
\* depend on the one hs[k] held before, so the call is taken as the first call
\* of a run.
FromEntries(k, entries, d) ==
    /\ ops = 0
    /\ hs' = [hs EXCEPT ![k] = from_entries(entries, d)]
    /\ inserted' = [inserted EXCEPT ![k] = {Str(entries[i].label) : i \in 1..Len(entries)}]
    /\ ops' = ops + 1
    /\ UNCHANGED <<codec, entry_heap, dbvars, blob>>

EntryLists == UNION {[1..n -> EntryInputs] : n \in 1..MaxEntries}

\* hs[k] = TaxonomyHierarchy.merge(hierarchy_list), hierarchy_list being the
\* objects hs[order[1]], hs[order[2]], ...; nothing has been inserted into the
\* new object.
Merge(k, order) ==
    /\ ops < MaxOps
    /\ LET r == merge([n \in 1..Len(order) |-> hs[order[n]]])
       IN  /\ hs' = IF r.ok THEN [hs EXCEPT ![k] = r.val] ELSE hs
           /\ inserted' = IF r.ok THEN [inserted EXCEPT ![k] = {}] ELSE inserted
    /\ ops' = ops + 1
    /\ UNCHANGED <<codec, entry_heap, dbvars, blob>>

MergeOrders == UNION {[1..n -> DOMAIN hs] : n \in 1..2}

\* A client that builds one hierarchy.
Next ==
    \/ \E k \in DOMAIN hs, t \in TupleInputs : AddTaxons(k, t)
    \/ \E k \in DOMAIN hs, label \in LabelInputs : AddTaxonomy(k, label)
    \/ \E k \in DOMAIN hs, entry \in EntryInputs : AddEntry(k, entry)

Spec == Init /\ [][Next]_vars

\* A client that builds one hierarchy from entries and labels.
NextEntries ==
    \/ \E k \in DOMAIN hs, entries \in EntryLists, d \in 1..MaxDepth :
           FromEntries(k, entries, d)
    \/ \E k \in DOMAIN hs, label \in LabelInputs : AddTaxonomy(k, label)
    \/ \E k \in DOMAIN hs, entry \in EntryInputs : AddEntry(k, entry)

SpecEntries == Init /\ [][NextEntries]_vars

\* A client that builds several hierarchies and merges them.
NextMerge ==
    \/ \E k \in DOMAIN hs, t \in TupleInputs : AddTaxons(k, t)
    \/ \E k \in DOMAIN hs, order \in MergeOrders : Merge(k, order)

SpecMerge == InitMerge /\ [][NextMerge]_vars

\* ------------------------------------------------------------- codec runs

\* The depths handed to the codec: the valid ones up to the bound, the largest
\* valid one and the two next to the valid range.
CodecDepths == (0..MaxCodecLen) \cup {7, 8}
CodecTuples == UNION {[1..n -> Names] : n \in 0..MaxCodecLen}

\* A codec run: a rank tuple and a depth.
InitCodec ==
    /\ hs = [k \in {1} |-> TaxonomyHierarchy(1)]
    /\ inserted = [k \in {1} |-> {}]
    /\ ops = 0
    /\ codec \in [stage : {"input"}, taxons : CodecTuples, depth : CodecDepths]
    /\ NoEntries
    /\ NoBlob
    /\ NoDb

\* label = join_taxonomy(taxons, depth)
CodecJoin ==
    /\ codec.stage = "input"
    /\ LET label == join_taxonomy(codec.taxons, codec.depth)
       IN  codec' = IF label = AssertionError
                    THEN [stage |-> "raised", taxons |-> codec.taxons,
                          depth |-> codec.depth]
                    ELSE [stage |-> "joined", taxons |-> codec.taxons,
                          depth |-> codec.depth, label |-> label]
    /\ UNCHANGED <<hs, inserted, ops, entry_heap, dbvars, blob>>

\* split = split_taxonomy(label, depth)
CodecSplit ==
    /\ codec.stage = "joined"
    /\ codec' = [stage |-> "split", taxons |-> codec.taxons, depth |-> codec.depth,
                 label |-> codec.label,
                 split |-> split_taxonomy(codec.label, codec.depth)]
    /\ UNCHANGED <<hs, inserted, ops, entry_heap, dbvars, blob>>

\* rejoined = join_taxonomy(split, depth)
CodecRejoin ==
    /\ codec.stage = "split"
    /\ codec' = [stage |-> "rejoined", taxons |-> codec.taxons, depth |-> codec.depth,
                 label |-> codec.label, split |-> codec.split,
                 rejoined |-> join_taxonomy(codec.split, codec.depth)]
    /\ UNCHANGED <<hs, inserted, ops, entry_heap, dbvars, blob>>

NextCodec == CodecJoin \/ CodecSplit \/ CodecRejoin

SpecCodec == InitCodec /\ [][NextCodec]_vars

\* ------------------------------------------------------------ entry runs

\* The entries of the runs below: a sequence identifier and the store's length
\* key as identifiers, a one-rank and a two-rank label.
DbIds == { <<"s">>, LengthKey }
DbLabels == { join_taxonomy(<< <<"A">> >>, 1), join_taxonomy(<< <<"A">>, <<"B">> >>, 2) }
DbEntries == {TaxonomyEntry(i, l) : i \in DbIds, l \in DbLabels}

\* The lines of a TSV file: one per entry, and a line without a tab.
EntryLines == {Entry_str(e) \o <<"\n">> : e \in DbEntries} \cup {l \o <<"\n">> : l \in DbLabels}

InitEntry ==
    /\ hs = [k \in {1} |-> TaxonomyHierarchy(1)]
    /\ inserted = [k \in {1} |-> {}]
    /\ ops = 0
    /\ codec = CodecIdle
    /\ NoEntries
    /\ NoBlob
    /\ NoDb

\* TaxonomyEntry(identifier, label): a new object.
NewEntry(identifier, label) ==
    /\ ops < MaxOps
    /\ entry_heap' = Append(entry_heap, TaxonomyEntry(identifier, label))
    /\ ops' = ops + 1
    /\ UNCHANGED <<hs, inserted, codec, dbvars, blob>>

\* TaxonomyEntry.from_str(line): a new object, or ValueError and none.
FromStr(line) ==
    /\ ops < MaxOps
    /\ LET r == Entry_from_str(line)
       IN  entry_heap' = IF r.ok THEN Append(entry_heap, r.val) ELSE entry_heap
    /\ ops' = ops + 1
    /\ UNCHANGED <<hs, inserted, codec, dbvars, blob>>

NextEntry ==
    \/ \E e \in DbEntries : NewEntry(e.identifier, e.label)
    \/ \E line \in EntryLines : FromStr(line)

SpecEntry == InitEntry /\ [][NextEntry]_vars

\* ------------------------------------------------------------ factory runs

ChunkSizes == (1..MaxChunk) \cup {DEFAULT_CHUNK_SIZE}
DbEntryLists == UNION {[1..n -> DbEntries] : n \in 1..MaxEntries}

\* The factory, the store and the log as the world of the factory's operators.
World == [factory |-> factory, store |-> store, log |-> log, ok |-> TRUE]

\* A factory has been constructed with some chunk size.
InitDb ==
    /\ hs = [k \in {1} |-> TaxonomyHierarchy(1)]
    /\ inserted = [k \in {1} |-> {}]
    /\ ops = 0
    /\ codec = CodecIdle
    /\ NoEntries
    /\ NoBlob
    /\ \E chunk_size \in ChunkSizes :
           LET w == TaxonomyDbFactory(chunk_size)
           IN  factory = w.factory /\ store = w.store /\ log = w.log
    /\ db = NoTaxonomyDb

\* factory.write_entry(entry)
WriteEntry(entry) ==
    /\ ops < MaxDbOps
    /\ LET w == write_entry(World, entry)
       IN  factory' = w.factory /\ store' = w.store /\ log' = w.log
    /\ ops' = ops + 1
    /\ UNCHANGED <<hs, inserted, codec, entry_heap, db, blob>>

\* factory.write_entries(list)
WriteEntries(list) ==
    /\ ops < MaxDbOps
    /\ LET w == write_entries(World, list, 1)
       IN  factory' = w.factory /\ store' = w.store /\ log' = w.log
    /\ ops' = ops + 1
    /\ UNCHANGED <<hs, inserted, codec, entry_heap, db, blob>>

\* factory.close()
Close ==
    /\ ops < MaxDbOps
    /\ LET w == TaxonomyDbFactory_close(World)
       IN  factory' = w.factory /\ store' = w.store /\ log' = w.log
    /\ ops' = ops + 1
    /\ UNCHANGED <<hs, inserted, codec, entry_heap, db, blob>>

\* factory.__exit__(...), at the end of a with statement: self.close()
Exit ==
    /\ ops < MaxDbOps
    /\ LET w == TaxonomyDbFactory_close(World)
       IN  factory' = w.factory /\ store' = w.store /\ log' = w.log
    /\ ops' = ops + 1
    /\ UNCHANGED <<hs, inserted, codec, entry_heap, db, blob>>

\* factory.__del__(), when the object is finalized: self.close()
Del ==
    /\ ops < MaxDbOps
    /\ LET w == TaxonomyDbFactory_close(World)
       IN  factory' = w.factory /\ store' = w.store /\ log' = w.log
    /\ ops' = ops + 1
    /\ UNCHANGED <<hs, inserted, codec, entry_heap, db, blob>>

\* db = TaxonomyDb(path), by a reader that opens the store after the factory
\* has closed it; KeyError leaves no object.
OpenDb ==
    /\ ~store.open
    /\ db = NoTaxonomyDb
    /\ LET r == TaxonomyDb(store)
       IN  db' = IF r.ok THEN r.val ELSE NoTaxonomyDb
    /\ UNCHANGED <<hs, inserted, ops, codec, entry_heap, factory, store, log, blob>>

NextDb ==
    \/ \E entry \in DbEntries : WriteEntry(entry)
    \/ \E list \in DbEntryLists : WriteEntries(list)
    \/ Close
    \/ Exit
    \/ Del
    \/ OpenDb

SpecDb == InitDb /\ [][NextDb]_vars

\* ------------------------------------------------------- deserialize runs

\* The documents handed to deserialize: a parent_map of up to MaxDepth ranks,
\* each rank an object whose members, <<child name, parent name>>, have
\* distinct keys among the child names, in any order.
BlobChildren == { <<"A">>, <<"a">> }
BlobMembers == {<<child, parent_name>> : child \in BlobChildren, parent_name \in Names}
BlobObjects ==
    {o \in UNION {[1..n -> BlobMembers] : n \in 0..Cardinality(BlobChildren)} :
        \A j1, j2 \in 1..Len(o) : j1 # j2 => o[j1][1] # o[j2][1]}
BlobInputs == UNION {[1..d -> BlobObjects] : d \in 1..MaxDepth}

InitBlob ==
    /\ hs = [k \in {1} |-> TaxonomyHierarchy(1)]
    /\ inserted = [k \in {1} |-> {}]
    /\ ops = 0
    /\ codec = CodecIdle
    /\ NoEntries
    /\ NoDb
    /\ blob \in [stage : {"input"}, parent_map : BlobInputs]

\* TaxonomyHierarchy.deserialize(document)
Deserialize ==
    /\ blob.stage = "input"
    /\ blob' = [stage |-> "done", parent_map |-> blob.parent_map,
                result |-> deserialize(blob.parent_map)]
    /\ UNCHANGED <<hs, inserted, ops, codec, entry_heap, dbvars>>

NextBlob == Deserialize

SpecBlob == InitBlob /\ [][NextBlob]_vars

\* ------------------------------------------------------------- properties

\* The hierarchies that inserting the argument a (a name tuple through
\* add_taxons, a label through add_taxonomy and through add_entry) makes of h.
Insertions(h, a) ==
    IF IsStr(a)
    THEN {add_taxonomy(h, a.str)}
         \cup {add_entry(h, [identifier |-> id, label |-> a.str]) : id \in SequenceIds}
    ELSE {add_taxons(h, a.tuple)}

NonEmptyTuples == {t \in TupleInputs : \A i \in 1..Len(t) : t[i] # Empty}

\* No rank map of h holds a taxon of the empty name.
NoEmptyName(h) ==
    \A i \in 1..depth(h) : \A j \in 1..Len(h.taxon_maps[i]) :
        h.taxon_maps[i][j].key # Empty

\* C1: in every reachable state, adding again an argument that has been added
\* to a hierarchy leaves the hierarchy as it is: the same rank maps, the same
\* Taxon objects with the same parents and children, no new taxon.
C1_InsertIdempotent ==
    \A k \in DOMAIN hs : \A a \in inserted[k] :
        \A h2 \in Insertions(hs[k], a) : h2 = hs[k]

\* A two-rank path has been added twice to a hierarchy of depth two or more.
C1_Witness ==
    \E k \in DOMAIN hs :
        /\ ops = 2
        /\ Cardinality(inserted[k]) = 1
        /\ depth(hs[k]) >= 2
        /\ Len(hs[k].taxon_maps[2]) = 1
        /\ NoEmptyName(hs[k])
        /\ \A a \in inserted[k] : \A h2 \in Insertions(hs[k], a) : h2 = hs[k]

\* C2: no two taxa stored in the same rank map with the same parent have
\* names that are equal after case folding.
C2_NoCaseFoldedDuplicates ==
    \A k \in DOMAIN hs : \A i \in 1..depth(hs[k]) :
        \A j1, j2 \in 1..Len(hs[k].taxon_maps[i]) :
            LET t1 == hs[k].heap[hs[k].taxon_maps[i][j1].val]
                t2 == hs[k].heap[hs[k].taxon_maps[i][j2].val]
            IN  (j1 # j2 /\ t1.parent = t2.parent)
                    => casefold(t1.name) # casefold(t2.name)

\* C3: for a rank tuple x of length D and L = join_taxonomy(x, D),
\* join_taxonomy(split_taxonomy(L, D), D) is L.
C3_JoinSplitRoundTrip ==
    (codec.stage = "rejoined" /\ Len(codec.taxons) = codec.depth)
        => codec.rejoined = codec.label

\* C4: where rank i of the label has the empty name and a later rank j a
\* non-empty one, split_taxonomy returns the empty name at position i and
\* that name at position j.
C4_SplitKeepsPositions ==
    codec.stage \in {"split", "rejoined"} =>
        \A i, j \in 1..Min(Len(codec.taxons), codec.depth) :
            (i < j /\ codec.taxons[i] = Empty /\ codec.taxons[j] # Empty)
                => /\ Len(codec.split) >= j
                   /\ codec.split[i] = Empty
                   /\ codec.split[j] = codec.taxons[j]

\* C5: deserialize(serialize(H)) succeeds and has the depth of H and the
\* (rank, name, parent-name) triples of H, for every hierarchy built by
\* insertions and merges.
C5_SerializeRoundTrip ==
    \A k \in DOMAIN hs :
        LET r == deserialize(serialize(hs[k]))
        IN  /\ r.ok
            /\ depth(r.val) = depth(hs[k])
            /\ Triples(r.val) = Triples(hs[k])

\* A hierarchy returned by merge (nothing inserted into it since) that holds a
\* taxon with a parent and Taxon objects no rank map refers to any more.
C5_Witness ==
    \E k \in DOMAIN hs :
        /\ inserted[k] = {}
        /\ depth(hs[k]) >= 2
        /\ Len(hs[k].taxon_maps[2]) >= 1
        /\ NoEmptyName(hs[k])
        /\ Len(hs[k].heap) > Len(hs[k].taxon_maps[1]) + Len(hs[k].taxon_maps[2])
        /\ deserialize(serialize(hs[k])).ok
        /\ Triples(deserialize(serialize(hs[k])).val) = Triples(hs[k])

\* C6: merge([A, B]) and merge([B, A]) hold the same (rank, name, parent-name)
\* triples, for all hierarchies A and B (here: of non-empty names only).
C6_MergeOrderIndependent ==
    \A a, b \in DOMAIN hs :
        (NoEmptyName(hs[a]) /\ NoEmptyName(hs[b])) =>
            LET ab == merge(<<hs[a], hs[b]>>)
                ba == merge(<<hs[b], hs[a]>>)
            IN  ab.ok /\ ba.ok /\ Triples(ab.val) = Triples(ba.val)

\* The first position of t whose name is in no rank map of h: its rank has no
\* map, or the name is not a key of its rank's map; Len(t) + 1 if there is none.
C7_FirstMissing(h, t) ==
    CHOOSE i \in 1..(Len(t) + 1) :
        /\ (i > Len(t) \/ i > depth(h) \/ t[i] \notin DictKeys(h.taxon_maps[i]))
        /\ \A j \in 1..(i - 1) : j <= depth(h) /\ t[j] \in DictKeys(h.taxon_maps[j])

\* C7: reduce_taxons(t) has t's names before the first position whose name
\* is not in its rank's map and the empty name from that position on.
C7_ReduceKeepsPrefix ==
    \A k \in DOMAIN hs : \A t \in TupleInputs :
        reduce_taxons(hs[k], t) =
            [i \in 1..Len(t) |-> IF i < C7_FirstMissing(hs[k], t) THEN t[i] ELSE Empty]

\* A name unknown at rank 0 is followed by a name known at rank 1, and the
\* reduction is empty at both; another tuple keeps rank 0 and loses rank 1.
C7_Witness ==
    \E k \in DOMAIN hs : \E t, u \in NonEmptyTuples :
        /\ depth(hs[k]) >= 2 /\ Len(t) = 2 /\ Len(u) = 2
        /\ t[1] \notin DictKeys(hs[k].taxon_maps[1])
        /\ t[2] \in DictKeys(hs[k].taxon_maps[2])
        /\ reduce_taxons(hs[k], t) = <<Empty, Empty>>
        /\ u[1] \in DictKeys(hs[k].taxon_maps[1])
        /\ u[2] \notin DictKeys(hs[k].taxon_maps[2])
        /\ reduce_taxons(hs[k], u) = <<u[1], Empty>>

\* C8: is_valid is true of a label or tuple of non-empty names only if each
\* name at rank i >= 1 names a taxon whose parent is the taxon named at rank
\* i - 1 (here: in a hierarchy of non-empty names only).
C8_ValidOnlyIfParentChain ==
    \A k \in DOMAIN hs : \A t \in NonEmptyTuples :
        \A a \in {Tuple(t), Str(join_taxonomy(t, Len(t)))} :
            (NoEmptyName(hs[k]) /\ Len(t) <= depth(hs[k]) /\ is_valid(hs[k], a)) =>
                \A i \in 2..Len(t) :
                    /\ DictHas(hs[k].taxon_maps[i], t[i])
                    /\ DictHas(hs[k].taxon_maps[i - 1], t[i - 1])
                    /\ hs[k].heap[DictGet(hs[k].taxon_maps[i], t[i])].parent
                           = DictGet(hs[k].taxon_maps[i - 1], t[i - 1])

\* C9: is_valid is true of every label and tuple that has been inserted, in
\* the state after the insertion and in every state further insertions reach.
C9_InsertedStaysValid ==
    \A k \in DOMAIN hs : \A a \in inserted[k] : is_valid(hs[k], a)

\* A label of two names and a tuple holding an empty name have been inserted
\* along with something else, and both are valid.
C9_Witness ==
    \E k \in DOMAIN hs : \E a, b \in inserted[k] :
        /\ Cardinality(inserted[k]) = 3
        /\ IsStr(a) /\ Len(split_taxonomy(a.str, DEFAULT_MAX_DEPTH)) = 2
        /\ ~IsStr(b) /\ Len(b.tuple) = 2 /\ b.tuple[1] # Empty /\ b.tuple[2] = Empty
        /\ depth(hs[k]) >= 2
        /\ is_valid(hs[k], a) /\ is_valid(hs[k], b)

\* C10: for an inserted label or tuple of non-empty names, the deepest being
\* n at rank r, taxons(r, n) is the inserted names padded with empty names to
\* the depth of the hierarchy, and taxonomy(r, n) is their label (here: in a
\* hierarchy of non-empty names only).
C10_LookupReturnsInserted ==
    \A k \in DOMAIN hs : \A t \in NonEmptyTuples :
        (/\ NoEmptyName(hs[k])
         /\ Len(t) <= depth(hs[k])
         /\ (Tuple(t) \in inserted[k] \/ Str(join_taxonomy(t, Len(t))) \in inserted[k]))
        => /\ taxons(hs[k], Len(t) - 1, t[Len(t)])
                = Ok(t \o [i \in 1..(depth(hs[k]) - Len(t)) |-> Empty])
           /\ taxonomy(hs[k], Len(t) - 1, t[Len(t)])
                = Ok(join_taxonomy(t, depth(hs[k])))

\* The Taxon objects the rank maps of h refer to.
TaxaOf(h) ==
    UNION {{h.taxon_maps[i][j].val : j \in 1..Len(h.taxon_maps[i])} :
             i \in 1..depth(h)}

\* C11: leaves() holds exactly the taxa of the hierarchy that have no
\* children, each once, a rank-0 taxon without children included (here: in a
\* hierarchy of non-empty names only).
C11_LeavesAreChildless ==
    \A k \in DOMAIN hs :
        NoEmptyName(hs[k]) =>
            LET l == leaves(hs[k])
            IN  /\ {l[i] : i \in 1..Len(l)}
                     = {t \in TaxaOf(hs[k]) : hs[k].heap[t].children = {}}
                /\ \A i, j \in 1..Len(l) : i # j => l[i] # l[j]

\* The names that are keys of the rank map at index i of h; none if h has no
\* such rank.
RankNames(h, i) == IF i <= depth(h) THEN DictKeys(h.taxon_maps[i]) ELSE {}

\* C12: merge of a non-empty list of hierarchies returns, without raising, a
\* hierarchy whose depth is the least depth of the inputs and whose name set
\* at each of its ranks is the union of the inputs' name sets at that rank.
C12_MergeUnionAtMinDepth ==
    \A order \in MergeOrders :
        LET hierarchy_list == [n \in 1..Len(order) |-> hs[order[n]]]
            depths == {depth(hierarchy_list[n]) : n \in 1..Len(order)}
            least == CHOOSE d \in depths : \A e \in depths : d <= e
            r == merge(hierarchy_list)
        IN  /\ r.ok
            /\ depth(r.val) = least
            /\ \A i \in 1..least :
                   RankNames(r.val, i)
                       = UNION {RankNames(hierarchy_list[n], i) : n \in 1..Len(order)}

\* Two hierarchies of different depths, each with a rank-0 name the other does
\* not have and the deeper one with a taxon at rank 1: their merge has the
\* smaller depth and both rank-0 names.
C12_Witness ==
    \E a, b \in DOMAIN hs :
        LET r == merge(<<hs[a], hs[b]>>)
        IN  /\ depth(hs[a]) = 2 /\ depth(hs[b]) = 1
            /\ NoEmptyName(hs[a]) /\ NoEmptyName(hs[b])
            /\ Len(hs[a].taxon_maps[2]) >= 1
            /\ RankNames(hs[a], 1) \ RankNames(hs[b], 1) # {}
            /\ RankNames(hs[b], 1) \ RankNames(hs[a], 1) # {}
            /\ r.ok
            /\ depth(r.val) = 1
            /\ RankNames(r.val, 1) = RankNames(hs[a], 1) \cup RankNames(hs[b], 1)

\* The segments of a label: its parts between the separators "; ", from
\* index i on, cur being the part read so far.
RECURSIVE C13_Segments(_, _, _)
C13_Segments(label, i, cur) ==
    IF i > Len(label) THEN <<cur>>
    ELSE IF label[i] = ";" /\ i + 1 <= Len(label) /\ label[i + 1] = " "
         THEN <<cur>> \o C13_Segments(label, i + 2, << >>)
    ELSE C13_Segments(label, i + 1, Append(cur, label[i]))

C14_JoinRejectsDepth ==
    (codec.stage # "input" /\ (codec.depth < 1 \/ codec.depth > 7)) =>
        /\ codec.stage = "raised"
        /\ "label" \notin DOMAIN codec

\* join_taxonomy of a non-empty tuple has been called with depth 0 and raised.
C14_Witness ==
    /\ codec.stage = "raised"
    /\ codec.depth = 0
    /\ Len(codec.taxons) >= 1
    /\ "label" \notin DOMAIN codec

\* The rank names a label is written from: its segments without their prefix.
LabelRanks(label) ==
    LET segments == C13_Segments(label, 1, << >>)
    IN  [i \in 1..Len(segments) |-> SubSeq(segments[i], 4, Len(segments[i]))]

\* No empty name of x is followed by a non-empty one.
TrailingEmpty(x) ==
    \A i, j \in 1..Len(x) : (i < j /\ x[i] = Empty) => x[j] = Empty

C16_EntryValueEquality ==
    \A a, b \in 1..Len(entry_heap) :
        Entry_eq(a, b) <=> (/\ entry_heap[a].identifier = entry_heap[b].identifier
                            /\ entry_heap[a].label = entry_heap[b].label)

\* C17: a TaxonomyDb opened on the store after the factory has closed it
\* reports as its length the number of write_entry calls made before.
C17_LengthCountsEntries ==
    db.opened => TaxonomyDb_len(db) = Len(log.entries)

\* Three entries written by one write_entries call and one write_entry call to
\* a factory of chunk size 2, two of them under the same identifier; the
\* factory closed; the TaxonomyDb reports length 3.
C17_Witness ==
    /\ db.opened
    /\ factory.chunk_size = 2
    /\ Len(log.entries) = 3
    /\ log.entries[1].identifier = log.entries[3].identifier
    /\ log.updates >= 3
    /\ TaxonomyDb_len(db) = 3

\* C18: after close, the lookup by the identifier of any entry written
\* returns an entry with that identifier and the label written last for it.
C18_LookupReturnsWritten ==
    db.opened =>
        \A i \in 1..Len(log.entries) :
            LET id == log.entries[i].identifier
                last == CHOOSE j \in 1..Len(log.entries) :
                            /\ log.entries[j].identifier = id
                            /\ \A n \in (j + 1)..Len(log.entries) :
                                   log.entries[n].identifier # id
            IN  TaxonomyDb_getitem(store, id)
                    = Ok(TaxonomyEntry(id, log.entries[last].label))

\* C19: the factory writes its length record once and closes the store once,
\* and issues no update to the store after the store has been closed.
C19_WriteOnce ==
    /\ log.length_writes <= 1
    /\ log.closes <= 1
    /\ log.late_updates = 0

\* A rank-i object (i >= 1) of the document has a member whose parent name is
\* not a key of the rank-(i-1) object.
C20_Malformed(parent_map) ==
    \E i \in 2..Len(parent_map) : \E j \in 1..Len(parent_map[i]) :
        \A n \in 1..Len(parent_map[i - 1]) :
            parent_map[i - 1][n][1] # parent_map[i][j][2]

\* C20: deserialize of a document in which a rank-i member (i >= 1) names a
\* parent that is not a key of rank i - 1 raises and returns no hierarchy.
C20_DeserializeRejectsMalformed ==
    (blob.stage = "done" /\ C20_Malformed(blob.parent_map)) =>
        /\ ~blob.result.ok
        /\ "val" \notin DOMAIN blob.result

\* A document with a taxon at rank 0 and, at rank 1, a member that names that
\* taxon and a member that names a parent rank 0 does not have: KeyError.
C20_Witness ==
    /\ blob.stage = "done"
    /\ Len(blob.parent_map) = 2
    /\ Len(blob.parent_map[1]) = 1
    /\ Len(blob.parent_map[2]) = 2
    /\ blob.parent_map[2][1][2] = blob.parent_map[1][1][1]
    /\ blob.parent_map[2][2][2] # blob.parent_map[1][1][1]
    /\ blob.parent_map[2][2][2] # Empty
    /\ blob.result = Raised("KeyError")

\* C21: for every label that has been inserted into a hierarchy (here: a
\* label written with as many ranks as the hierarchy has),
\* detokenize(tokenize(L)) is L, with and without padding, with and without
\* the token of a missing rank.
C21_TokenizeRoundTrip ==
    \A k \in DOMAIN hs : \A a \in inserted[k] :
        (IsStr(a) /\ Len(LabelRanks(a.str)) = depth(hs[k])) =>
            \A pad, include_missing \in BOOLEAN :
                detokenize(hs[k], tokenize(hs[k], a.str, pad, include_missing),
                           include_missing) = a.str

\* C22: at every rank of every hierarchy built by insertions, the taxon
\* identifiers are a bijection between the n taxa of the rank and 0 .. n-1:
\* the identifiers assigned to the names of the rank are exactly 0 .. n-1,
\* and the taxon of identifier i has the identifier i.
C22_IdContiguity ==
    \A k \in DOMAIN hs : \A i \in 1..depth(hs[k]) :
        LET names == id_to_taxon_map(hs[k])[i]
            n == Len(hs[k].taxon_maps[i])
        IN  /\ Len(names) = n
            /\ {taxon_to_id_map(hs[k], i, names[j]) : j \in 1..n} = 0..(n - 1)
            /\ \A j \in 1..n : taxon_to_id_map(hs[k], i, names[j]) = j - 1

\* C23: add_taxons never creates a taxon of the empty name: no rank map of a
\* hierarchy built by add_taxons holds the empty name, and adding a tuple
\* whose names from position n on are all empty leaves the rank maps of the
\* ranks from n on as they are.
C23_NoEmptyTaxon ==
    \A k \in DOMAIN hs :
        /\ NoEmptyName(hs[k])
        /\ \A t \in TupleInputs : \A n \in 1..Len(t) :
               (\A j \in n..Len(t) : t[j] = Empty) =>
                   \A i \in n..Min(Len(t), depth(hs[k])) :
                       add_taxons(hs[k], t).taxon_maps[i] = hs[k].taxon_maps[i]

\* The reference walk over the rank names x from rank i on: true at the first
\* empty name, false at the first non-empty name that is not in its rank's
\* map, true when the names or the ranks of the hierarchy end.
RECURSIVE C24_Walk(_, _, _)
C24_Walk(h, x, i) ==
    IF i > Len(x) \/ i > depth(h) THEN TRUE
    ELSE IF x[i] = Empty THEN TRUE
    ELSE IF x[i] \notin DictKeys(h.taxon_maps[i]) THEN FALSE
    ELSE C24_Walk(h, x, i + 1)

\* C24: is_valid of a name tuple, and of the label written from a name tuple,
\* is the reference walk over the names: in particular a label whose rank-i
\* name is empty is valid when its earlier names exist, whatever follows.
C24_IsValidIsWalk ==
    \A k \in DOMAIN hs : \A x \in TupleInputs :
        /\ is_valid(hs[k], Tuple(x)) = C24_Walk(hs[k], x, 1)
        /\ is_valid(hs[k], Str(join_taxonomy(x, Len(x)))) = C24_Walk(hs[k], x, 1)

\* C25: the non-empty names reduce_taxons returns form a path from a root:
\* each returned name at rank i >= 1 names a taxon whose parent is the taxon
\* named at rank i - 1 of the result (here: in a hierarchy of non-empty names
\* only).
C25_ReduceIsPath ==
    \A k \in DOMAIN hs : \A t \in TupleInputs :
        NoEmptyName(hs[k]) =>
            LET r == reduce_taxons(hs[k], t)
            IN  \A i \in 2..Len(r) :
                    r[i] # Empty =>
                        /\ DictHas(hs[k].taxon_maps[i], r[i])
                        /\ DictHas(hs[k].taxon_maps[i - 1], r[i - 1])
                        /\ hs[k].heap[DictGet(hs[k].taxon_maps[i], r[i])].parent
                               = DictGet(hs[k].taxon_maps[i - 1], r[i - 1])

\* C26: after every write call the buffer of the factory holds fewer than
\* chunk_size items, and no flush hands the store more than chunk_size items.
C26_BoundedBatches ==
    /\ log.max_pending < factory.chunk_size
    /\ log.max_batch <= factory.chunk_size

\* C30: when close() has closed the store, the store holds, for every key
\* passed to write so far, the value of the last write to that key, and no
\* other key, whatever the chunk size and however the writes were spread
\* over the flushes.
C30_NoWriteLost ==
    [][(store.open /\ ~store'.open) => store'.data = log'.writes]_vars

\* A factory of chunk size 2 has been closed after three entries were
\* written, two of them under the same identifier with different labels: the
\* writes went to the store in three batches or more, and the store holds the
\* last value of each key.
C30_Witness ==
    /\ ~store.open
    /\ factory.chunk_size = 2
    /\ Len(log.entries) = 3
    /\ \E i, j \in 1..3 :
           /\ i < j
           /\ log.entries[i].identifier = log.entries[j].identifier
           /\ log.entries[i].label # log.entries[j].label
    /\ log.updates >= 3
    /\ log.late_updates = 0
    /\ store.data = log.writes

\* Every taxon a rank map of h holds at rank i >= 1 has as parent the object
\* the map of rank i - 1 holds under the parent's name, and is one of that
\* object's children.
C27_Linked(h) ==
    \A i \in 2..depth(h) : \A j \in 1..Len(h.taxon_maps[i]) :
        LET ref == h.taxon_maps[i][j].val
            parent == h.heap[ref].parent
        IN  /\ parent # None
            /\ DictHas(h.taxon_maps[i - 1], h.heap[parent].name)
            /\ DictGet(h.taxon_maps[i - 1], h.heap[parent].name) = parent
            /\ ref \in h.heap[parent].children

\* C27: in the hierarchy merge returns, every taxon stored at a rank i >= 1
\* has as parent the very taxon stored under its parent's name at rank i - 1
\* and is among that taxon's children, also when two inputs share a name
\* (here: for inputs of non-empty names only whose own taxa are linked so).
C27_MergeKeepsLinks ==
    \A order \in MergeOrders :
        (\A n \in 1..Len(order) :
            NoEmptyName(hs[order[n]]) /\ C27_Linked(hs[order[n]])) =>
            LET r == merge([n \in 1..Len(order) |-> hs[order[n]]])
            IN  r.ok => C27_Linked(r.val)

\* Every taxon of h is in g what it is in h: its rank map holds it at the same
\* place under the same name, and its name, rank and parent are the same.
C28_Kept(h, g) ==
    /\ depth(g) = depth(h)
    /\ \A i \in 1..depth(h) :
           /\ Len(g.taxon_maps[i]) >= Len(h.taxon_maps[i])
           /\ \A j \in 1..Len(h.taxon_maps[i]) :
                  LET ref == h.taxon_maps[i][j].val
                  IN  /\ g.taxon_maps[i][j] = h.taxon_maps[i][j]
                      /\ g.heap[ref].name = h.heap[ref].name
                      /\ g.heap[ref].depth = h.heap[ref].depth
                      /\ g.heap[ref].parent = h.heap[ref].parent

\* C28: a step of add_taxons, add_taxonomy or add_entry leaves the depth of
\* the hierarchy and the rank, name and parent of every taxon it held before
\* as they were.
C28_InsertionFrame ==
    [][\A k \in DOMAIN hs : C28_Kept(hs[k], hs'[k])]_vars

\* The name 'a' has been inserted at rank 1 under 'A' and under 'B': the
\* rank holds one taxon 'a', whose parent is the one of the first insertion.
C28_Witness ==
    \E k \in DOMAIN hs :
        /\ depth(hs[k]) = 2
        /\ inserted[k] = {Tuple(<<(<<"A">>), (<<"a">>)>>), Tuple(<<(<<"B">>), (<<"a">>)>>)}
        /\ Len(hs[k].taxon_maps[2]) = 1
        /\ Len(hs[k].taxon_maps[1]) = 2
        /\ hs[k].heap[DictGet(hs[k].taxon_maps[2], <<"a">>)].parent
               = hs[k].taxon_maps[1][1].val

\* C29: in every reachable hierarchy and for every name tuple t,
\* reduce_taxons(t) has the length of t and is_valid is true of it.
C29_ReducedIsValid ==
    \A k \in DOMAIN hs : \A t \in TupleInputs :
        LET r == reduce_taxons(hs[k], t)
        IN  Len(r) = Len(t) /\ is_valid(hs[k], Tuple(r))

\* A tuple of two non-empty names that is not valid, its first name being
\* known and its second not, is reduced to its first name, which is valid;
\* another one, unknown at rank 0, is reduced to empty names.
C29_Witness ==
    \E k \in DOMAIN hs : \E t, u \in NonEmptyTuples :
        /\ depth(hs[k]) = 2 /\ Len(t) = 2 /\ Len(u) = 2
        /\ ~is_valid(hs[k], Tuple(t))
        /\ reduce_taxons(hs[k], t) = <<t[1], Empty>>
        /\ is_valid(hs[k], Tuple(reduce_taxons(hs[k], t)))
        /\ ~is_valid(hs[k], Tuple(u))
        /\ DictHas(hs[k].taxon_maps[2], u[2])
        /\ reduce_taxons(hs[k], u) = <<Empty, Empty>>
        /\ is_valid(hs[k], Tuple(reduce_taxons(hs[k], u)))

====
